---- MODULE Spec2Model ----
(***************************************************************************)
(* A model of the VRPTW repository: vrptw_solver.py (distance and duration *)
(* matrices, the model handed to PyVRP, the aggregation of the solver's    *)
(* routes into the solution record) and vrptw_app.py (one Streamlit        *)
(* session: validation, the solve handler, its worker thread and its       *)
(* temporary files).                                                       *)
(*                                                                         *)
(* Units.  Coordinates are integers in millidegrees, distances integers in *)
(* milli-miles (the source uses doubles), durations integer minutes.       *)
(* Python's None is the empty set and a present value v is {v}.            *)
(***************************************************************************)
EXTENDS Integers, Sequences, FiniteSets, TLC

\* ------------------------------------------------------------------ bounds
\* Largest number of rows of a CSV file.
MaxLocs == 3

\* Largest number of solve attempts looked at in one session.
MaxAttempts == 2

\* Largest number of failed file operations (creating, reading back or
\* unlinking a temporary file) looked at in one session.
MaxFaults == 1

\* Latest reading of the clock while a progress loop is watched.
MaxClock == 5

\* ------------------------------------------------------------ small helpers
None == {}
Some(v) == {v}
TheValue(o) == CHOOSE v \in o : TRUE

\* Python's int(): truncation toward zero of the quotient a / b, for b > 0.
TruncDiv(a, b) == IF a >= 0 THEN a \div b ELSE -((-a) \div b)

Max2(a, b) == IF a >= b THEN a ELSE b

RECURSIVE SumSeq(_)
SumSeq(s) == IF s = <<>> THEN 0 ELSE Head(s) + SumSeq(Tail(s))

\* ------------------------------------------------- vrptw_solver.py: geometry
\* math.radians, from millidegrees to units of 1e-7 radian (pi/180 = 0.017453).
Radians(x) == TruncDiv(x * 17453, 100)

\* math.sin by its Taylor series x - x^3/6, argument and result in 1e-7 rad;
\* exact to the last digit for the half-differences of coordinates less than
\* half a degree apart.
Sin(x) == x - TruncDiv(TruncDiv(x * x, 10000000) * x, 60000000)

\* math.cos by its Taylor series 1 - x^2/2 + x^4/24 - x^6/720, argument in
\* 1e-7 rad, result in units of 1e-4; within 1e-4 for latitudes up to 60 degrees.
Cos(x) ==
    LET y  == TruncDiv(x, 1000)
        y2 == (y * y) \div 10000
        y4 == (y2 * y2) \div 10000
        y6 == (y4 * y2) \div 10000
    IN  10000 - (y2 \div 2) + (y4 \div 24) - (y6 \div 720)

\* math.sqrt on naturals: the integer square root, by bisection.
RECURSIVE SqrtBetween(_, _, _)
SqrtBetween(n, lo, hi) ==
    IF lo >= hi THEN lo
    ELSE LET mid == (lo + hi + 1) \div 2
         IN  IF mid * mid <= n THEN SqrtBetween(n, mid, hi)
                               ELSE SqrtBetween(n, lo, mid - 1)

Sqrt(n) == SqrtBetween(n, 0, 46340)

\* math.asin by its Taylor series y + y^3/6, argument and result in 1e-7.
Asin(y) == y + (((y * y) \div 10000000) * y) \div 60000000

\* Radius of earth in miles
r == 3956

\* haversine_distance: great-circle distance in milli-miles of two points given
\* in millidegrees.  a is kept in units of 1e-14, c in 1e-7 rad.
haversine_distance(lat1, lon1, lat2, lon2) ==
    LET rlon1 == Radians(lon1)
        rlat1 == Radians(lat1)
        rlon2 == Radians(lon2)
        rlat2 == Radians(lat2)
        dlon  == rlon2 - rlon1
        dlat  == rlat2 - rlat1
        sLat  == Sin(TruncDiv(dlat, 2))
        sLon  == Sin(TruncDiv(dlon, 2))
        cc    == (Cos(rlat1) * Cos(rlat2)) \div 10000
        sLon2 == sLon * sLon
        a     == sLat * sLat + (sLon2 \div 10000) * cc
                             + ((sLon2 % 10000) * cc) \div 10000
        c     == 2 * Asin(Sqrt(a))
    IN  (c * r) \div 10000

\* ------------------------------------------------- vrptw_solver.py: matrices
\* locations_df.iloc[i]: rows are numbered from 0.
iloc(df, i) == df[i + 1]

\* compute_distance_matrix, without the mirrored assignment of line 83.
compute_distance_matrix_unmirrored(locations_df) ==
    LET n == Len(locations_df)
    IN  [i \in 0..(n - 1) |-> [j \in 0..(n - 1) |->
            IF i < j
            THEN haversine_distance(iloc(locations_df, i).latitude,
                                    iloc(locations_df, i).longitude,
                                    iloc(locations_df, j).latitude,
                                    iloc(locations_df, j).longitude)
            ELSE 0]]

\* compute_distance_matrix: np.zeros((n, n)), then for each pair i < j the
\* distance of rows i and j is stored at [i, j] and at [j, i].
compute_distance_matrix(locations_df) ==
    LET n == Len(locations_df)
        dist(i, j) == haversine_distance(iloc(locations_df, i).latitude,
                                         iloc(locations_df, i).longitude,
                                         iloc(locations_df, j).latitude,
                                         iloc(locations_df, j).longitude)
    IN  [i \in 0..(n - 1) |-> [j \in 0..(n - 1) |->
            IF i < j THEN dist(i, j)
            ELSE IF j < i THEN dist(j, i)
            ELSE 0]]

\* miles_to_minutes that rounds to the nearest minute instead of truncating.
miles_to_minutes_rounded(distance_miles, avg_speed_mph) ==
    TruncDiv(distance_miles * 60 + avg_speed_mph * 500, avg_speed_mph * 1000)

\* miles_to_minutes: int(distance_miles / avg_speed_mph * 60), the distance
\* being in milli-miles here.
miles_to_minutes(distance_miles, avg_speed_mph) ==
    TruncDiv(distance_miles * 60, avg_speed_mph * 1000)

\* The duration matrix of solve_vrptw: every entry of the distance matrix
\* converted by miles_to_minutes.
compute_duration_matrix(dm, avg_speed_mph) ==
    [i \in DOMAIN dm |-> [j \in DOMAIN dm[i] |->
        miles_to_minutes(dm[i][j], avg_speed_mph)]]

\* A load that keeps every row whatever num_locations says.
SelectSubset_all(rows, num_locations) == rows

\* df.head(num_locations) when num_locations is given, else df.
SelectSubset(rows, num_locations) ==
    IF num_locations = None THEN rows
    ELSE SubSeq(rows, 1, IF TheValue(num_locations) < Len(rows)
                         THEN TheValue(num_locations) ELSE Len(rows))

\* ----------------------------------------- vrptw_solver.py: the PyVRP model
\* One m.add_edge call.
Edge(frm, to, distance, duration) ==
    [frm |-> frm, to |-> to, distance |-> distance, duration |-> duration]

\* "Depot to all clients": for j in range(1, n), the edges depot -> client j
\* and client j -> depot, both weighted from entry [0][j].
RECURSIVE DepotEdges(_, _, _, _)
DepotEdges(dm, tm, j, n) ==
    IF j >= n THEN <<>>
    ELSE LET distance == TruncDiv(dm[0][j], 10)
             duration == tm[0][j]
         IN  <<Edge(0, j, distance, duration), Edge(j, 0, distance, duration)>>
             \o DepotEdges(dm, tm, j + 1, n)

\* Client edges in one direction only, i -> j for i < j.
RECURSIVE ClientEdges_one_way(_, _, _, _, _)
ClientEdges_one_way(dm, tm, i, j, n) ==
    IF i >= n THEN <<>>
    ELSE IF j >= n THEN ClientEdges_one_way(dm, tm, i + 1, i + 2, n)
    ELSE LET distance == TruncDiv(dm[i][j], 10)
             duration == tm[i][j]
         IN  <<Edge(i, j, distance, duration)>>
             \o ClientEdges_one_way(dm, tm, i, j + 1, n)

\* "Between all clients": for i in range(1, n), for j in range(i+1, n), the
\* edges i -> j and j -> i, both weighted from entry [i][j].
RECURSIVE ClientEdges(_, _, _, _, _)
ClientEdges(dm, tm, i, j, n) ==
    IF i >= n THEN <<>>
    ELSE IF j >= n THEN ClientEdges(dm, tm, i + 1, i + 2, n)
    ELSE LET distance == TruncDiv(dm[i][j], 10)
             duration == tm[i][j]
         IN  <<Edge(i, j, distance, duration), Edge(j, i, distance, duration)>>
             \o ClientEdges(dm, tm, i, j + 1, n)

\* A model whose clients ask for nothing.
BuildModel_no_demand(a, locs, dm, tm) ==
    LET n == Len(locs)
    IN  [depot |-> [x |-> iloc(locs, 0).longitude * 100,
                    y |-> iloc(locs, 0).latitude * 100,
                    tw_early |-> a.time_window_start,
                    tw_late |-> a.time_window_end],
         clients |-> [k \in 1..(n - 1) |->
                        [x |-> iloc(locs, k).longitude * 100,
                         y |-> iloc(locs, k).latitude * 100,
                         delivery |-> 0,
                         service_duration |-> a.service_time,
                         tw_early |-> a.time_window_start,
                         tw_late |-> a.time_window_end,
                         name |-> iloc(locs, k).name]],
         vehicle_type |-> [num_available |-> a.num_vehicles,
                           capacity |-> a.vehicle_capacity],
         edges |-> DepotEdges(dm, tm, 1, n) \o ClientEdges(dm, tm, 1, 2, n)]

\* The Model built by solve_vrptw (needs a row 0: n >= 1).  Coordinates are
\* int(degrees * 100000), distances int(miles * 100).  max_route_duration is
\* not part of it: no call hands it to the model.
BuildModel(a, locs, dm, tm) ==
    LET n == Len(locs)
    IN  [depot |-> [x |-> iloc(locs, 0).longitude * 100,
                    y |-> iloc(locs, 0).latitude * 100,
                    tw_early |-> a.time_window_start,
                    tw_late |-> a.time_window_end],
         clients |-> [k \in 1..(n - 1) |->
                        [x |-> iloc(locs, k).longitude * 100,
                         y |-> iloc(locs, k).latitude * 100,
                         delivery |-> 1,
                         service_duration |-> a.service_time,
                         tw_early |-> a.time_window_start,
                         tw_late |-> a.time_window_end,
                         name |-> iloc(locs, k).name]],
         vehicle_type |-> [num_available |-> a.num_vehicles,
                           capacity |-> a.vehicle_capacity],
         edges |-> DepotEdges(dm, tm, 1, n) \o ClientEdges(dm, tm, 1, 2, n)]

\* -------------------------------------------- PyVRP, the external optimiser
\* PyVRP sees the model alone.  It returns some solution, at most
\* num_available routes over the clients, no client visited twice, and calls
\* it feasible when every client is visited, no route carries more than the
\* capacity, and no time window is missed.
Range(f) == {f[x] : x \in DOMAIN f}

TheEdge(m, i, j) ==
    CHOOSE e \in Range(m.edges) : e.frm = i /\ e.to = j

Injective(f) == \A x, y \in DOMAIN f : x # y => f[x] # f[y]

\* Every visit order of every subset of the clients.
VisitSeqs(m) ==
    LET k == Len(m.clients)
    IN  {v \in UNION {[1..l -> 1..k] : l \in 0..k} : Injective(v)}

Disjoint(rs) ==
    \A x, y \in DOMAIN rs : x # y => Range(rs[x]) \cap Range(rs[y]) = {}

Solutions(m) ==
    {rs \in UNION {[1..l -> VisitSeqs(m)] : l \in 0..m.vehicle_type.num_available} :
        Disjoint(rs)}

\* A vehicle leaves the depot at its opening, waits for a client's window to
\* open, and must start every service and be back before the windows close.
RECURSIVE OnTime(_, _, _, _)
OnTime(m, visits, current, t) ==
    IF visits = <<>>
    THEN current = 0 \/ t + TheEdge(m, current, 0).duration <= m.depot.tw_late
    ELSE LET v     == Head(visits)
             start == Max2(t + TheEdge(m, current, v).duration,
                           m.clients[v].tw_early)
         IN  /\ start <= m.clients[v].tw_late
             /\ OnTime(m, Tail(visits), v, start + m.clients[v].service_duration)

RECURSIVE Load(_, _)
Load(m, visits) ==
    IF visits = <<>> THEN 0
    ELSE m.clients[Head(visits)].delivery + Load(m, Tail(visits))

IsComplete(m, rs) ==
    \A k \in DOMAIN m.clients : \E x \in DOMAIN rs : k \in Range(rs[x])

IsFeasible(m, rs) ==
    /\ IsComplete(m, rs)
    /\ \A x \in DOMAIN rs :
          /\ Load(m, rs[x]) <= m.vehicle_type.capacity
          /\ OnTime(m, rs[x], 0, m.depot.tw_early)

\* The objective: the distance of the edges driven.
RECURSIVE EdgeCost(_, _, _)
EdgeCost(m, visits, current) ==
    IF visits = <<>>
    THEN IF current = 0 THEN 0 ELSE TheEdge(m, current, 0).distance
    ELSE TheEdge(m, current, Head(visits)).distance
         + EdgeCost(m, Tail(visits), Head(visits))

RECURSIVE Cost(_, _)
Cost(m, rs) ==
    IF rs = <<>> THEN 0 ELSE EdgeCost(m, Head(rs), 0) + Cost(m, Tail(rs))

\* What m.solve returns: result.best.routes(), result.is_feasible() and
\* result.cost().
SolverResult(m, rs) ==
    [routes |-> rs, is_feasible |-> IsFeasible(m, rs), cost |-> Cost(m, rs)]

\* --------------------------------------- vrptw_solver.py: solution record
\* The record as first built: the verdict, the cost of a feasible result,
\* and empty routes and totals.
initial_solution_data_costed(result, locs) ==
    [feasible |-> result.is_feasible,
     cost |-> Some(result.cost),
     routes |-> <<>>,
     num_routes |-> 0,
     total_distance |-> 0,
     total_duration |-> 0,
     locations |-> locs]

initial_solution_data(result, locs) ==
    [feasible |-> result.is_feasible,
     cost |-> IF result.is_feasible THEN Some(result.cost) ELSE None,
     routes |-> <<>>,
     num_routes |-> 0,
     total_distance |-> 0,
     total_duration |-> 0,
     locations |-> locs]

\* The walk of one route, charging the service time on the return leg too.
RECURSIVE route_walk_service_on_return(_, _, _, _, _, _)
route_walk_service_on_return(dm, tm, service_time, visits, current, route_data) ==
    IF visits = <<>>
    THEN [route_data EXCEPT
            !.distance = @ + dm[current][0],
            !.duration = @ + tm[current][0] + service_time]
    ELSE LET visit == Head(visits)
         IN  route_walk_service_on_return(dm, tm, service_time, Tail(visits), visit,
                [route_data EXCEPT
                    !.distance = @ + dm[current][visit],
                    !.duration = @ + tm[current][visit] + service_time])

\* "Calculate route distance and duration": the loop over the visits from
\* `current`, then the leg back to the depot.
RECURSIVE route_walk(_, _, _, _, _, _)
route_walk(dm, tm, service_time, visits, current, route_data) ==
    IF visits = <<>>
    THEN [route_data EXCEPT
            !.distance = @ + dm[current][0],
            !.duration = @ + tm[current][0]]
    ELSE LET visit == Head(visits)
         IN  route_walk(dm, tm, service_time, Tail(visits), visit,
                [route_data EXCEPT
                    !.distance = @ + dm[current][visit],
                    !.duration = @ + tm[current][visit] + service_time])

\* route_data of one route: its visits, the names along it, and the metrics.
make_route_data(locs, dm, tm, service_time, visits) ==
    route_walk(dm, tm, service_time, visits, 0,
        [visits |-> visits,
         locations |-> <<iloc(locs, 0).name>>
                       \o [x \in DOMAIN visits |-> iloc(locs, visits[x]).name]
                       \o <<iloc(locs, 0).name>>,
         distance |-> 0,
         duration |-> 0])

\* The loop over the routes without the test that skips a route of no visits.
RECURSIVE process_routes_keep_empty(_, _, _, _, _, _)
process_routes_keep_empty(locs, dm, tm, service_time, routes, sd) ==
    IF routes = <<>> THEN sd
    ELSE LET route_data == make_route_data(locs, dm, tm, service_time, Head(routes))
         IN  process_routes_keep_empty(locs, dm, tm, service_time, Tail(routes),
                [sd EXCEPT
                    !.routes = Append(@, route_data),
                    !.total_distance = @ + route_data.distance,
                    !.total_duration = @ + route_data.duration])

\* "Process each route": a route of no visits is skipped; any other is
\* appended and added to the totals.
RECURSIVE process_routes(_, _, _, _, _, _)
process_routes(locs, dm, tm, service_time, routes, sd) ==
    IF routes = <<>> THEN sd
    ELSE IF Len(Head(routes)) = 0
    THEN process_routes(locs, dm, tm, service_time, Tail(routes), sd)
    ELSE LET route_data == make_route_data(locs, dm, tm, service_time, Head(routes))
         IN  process_routes(locs, dm, tm, service_time, Tail(routes),
                [sd EXCEPT
                    !.routes = Append(@, route_data),
                    !.total_distance = @ + route_data.distance,
                    !.total_duration = @ + route_data.duration])

\* The record of a feasible result, after the loop and the count of routes.
feasible_solution_data(result, locs, dm, tm, service_time) ==
    LET sd == process_routes(locs, dm, tm, service_time, result.routes,
                             initial_solution_data(result, locs))
    IN  [sd EXCEPT !.num_routes = Len(sd.routes)]

\* ------------------------------------------------ vrptw_app.py: validation
\* A cell of the uploaded CSV is described by what pandas makes of it: a
\* coordinate is "number" (numeric and in range), "out_of_range" (numeric,
\* outside the range), "text" (not numeric) or "null"; a name or address is
\* "text" or "null".
required_cols == {"name", "address", "latitude", "longitude"}

\* "Apply location limit if specified": df.head(num_locations) when
\* 0 < num_locations < len(df), else df.
DisplayRows(rows, num_locations) ==
    IF num_locations > 0 /\ num_locations < Len(rows)
    THEN SubSeq(rows, 1, num_locations)
    ELSE rows

\* Lines 321-322: df_display with its coordinate columns replaced by what
\* pd.to_numeric returns, columns of floats (a numeral held as a string is
\* converted; a cell that is not a numeral raises, see ToNumericRaises).
coordinate_cols == {"latitude", "longitude"}

to_numeric(rows) ==
    [rows |-> rows, dtypes |-> [col \in coordinate_cols |-> "float64"]]

\* DataFrame.to_csv(index=False), line 525: a cell as the text of the file.
\* A number, or a numeral held as a string, is written as a numeral; a
\* missing value as nothing; any other string as it is.
CellText(cell) ==
    CASE cell = "null" -> ""
      [] cell = "number" -> "numeral"
      [] cell = "out_of_range" -> "numeral_out_of_range"
      [] OTHER -> "word"

to_csv(rows) ==
    [x \in DOMAIN rows |-> [col \in DOMAIN rows[x] |-> CellText(rows[x][col])]]

\* pd.read_csv: what a cell of the file is read as.
CellRead(text) ==
    CASE text = "" -> "null"
      [] text = "numeral" -> "number"
      [] text = "numeral_out_of_range" -> "out_of_range"
      [] OTHER -> "text"

\* pd.read_csv: a coordinate column in which some cell is not a numeral is
\* not converted: it is a column of strings (dtype object), its numerals
\* included; a column of numerals and empty cells is a column of floats.
read_csv(lines) ==
    [rows   |-> [x \in DOMAIN lines |->
                    [col \in DOMAIN lines[x] |-> CellRead(lines[x][col])]],
     dtypes |-> [col \in coordinate_cols |->
                    IF \E x \in DOMAIN lines : lines[x][col] = "word"
                    THEN "object" ELSE "float64"]]

\* pd.to_numeric raises on a cell that is not numeric.
ToNumericRaises(rows) ==
    \E x \in DOMAIN rows : rows[x].latitude = "text" \/ rows[x].longitude = "text"

\* Series.between(lo, hi).all(): false for a number out of range and for NaN.
AllBetween(rows, col) == \A x \in DOMAIN rows : rows[x][col] = "number"

\* df_display[required_cols].isnull().any().any()
AnyNull(rows) ==
    \E x \in DOMAIN rows : \E col \in required_cols : rows[x][col] = "null"

\* The validation without its last check, the one for missing values.
validate_without_null_check(df_display) ==
    LET e1 == IF Len(df_display) < 2 THEN <<"min_rows">> ELSE <<>>
        p1 == Len(df_display) >= 2
        e2 == IF ToNumericRaises(df_display) THEN Append(e1, "numeric") ELSE e1
        p2 == p1 /\ ~ToNumericRaises(df_display)
        latOk == AllBetween(df_display, "latitude")
        lonOk == AllBetween(df_display, "longitude")
        e3 == IF ~p2 THEN e2
              ELSE (IF latOk THEN e2 ELSE Append(e2, "lat_range"))
                   \o (IF lonOk THEN <<>> ELSE <<"lon_range">>)
        p3 == p2 /\ latOk /\ lonOk
    IN  [validation_passed |-> p3, error_messages |-> e3]

\* The validation without its first check, the one for the minimum of rows.
validate_without_min_rows(df_display) ==
    LET e2 == IF ToNumericRaises(df_display) THEN <<"numeric">> ELSE <<>>
        p2 == ~ToNumericRaises(df_display)
        latOk == AllBetween(df_display, "latitude")
        lonOk == AllBetween(df_display, "longitude")
        e3 == IF ~p2 THEN e2
              ELSE (IF latOk THEN e2 ELSE Append(e2, "lat_range"))
                   \o (IF lonOk THEN <<>> ELSE <<"lon_range">>)
        p3 == p2 /\ latOk /\ lonOk
        e4 == IF p3 /\ AnyNull(df_display) THEN Append(e3, "missing_values") ELSE e3
        p4 == p3 /\ ~AnyNull(df_display)
    IN  [validation_passed |-> p4, error_messages |-> e4]

\* "Additional validation": the minimum of 2 rows, numeric coordinates, then
\* (only if nothing failed so far) the ranges, then (only if nothing failed
\* so far) the missing values.  Every failed check adds its message.
validate(df_display) ==
    LET e1 == IF Len(df_display) < 2 THEN <<"min_rows">> ELSE <<>>
        p1 == Len(df_display) >= 2
        e2 == IF ToNumericRaises(df_display) THEN Append(e1, "numeric") ELSE e1
        p2 == p1 /\ ~ToNumericRaises(df_display)
        latOk == AllBetween(df_display, "latitude")
        lonOk == AllBetween(df_display, "longitude")
        e3 == IF ~p2 THEN e2
              ELSE (IF latOk THEN e2 ELSE Append(e2, "lat_range"))
                   \o (IF lonOk THEN <<>> ELSE <<"lon_range">>)
        p3 == p2 /\ latOk /\ lonOk
        e4 == IF p3 /\ AnyNull(df_display) THEN Append(e3, "missing_values") ELSE e3
        p4 == p3 /\ ~AnyNull(df_display)
    IN  [validation_passed |-> p4, error_messages |-> e4]

\* The time-window test that lets an empty window through.
time_window_invalid_strict(time_window_start, time_window_end) ==
    time_window_end < time_window_start

\* "Validate time window": if time_window_end <= time_window_start.
time_window_invalid(time_window_start, time_window_end) ==
    time_window_end <= time_window_start

\* The start of the window, tw_start.hour * 60 + tw_start.minute at the
\* default 9:00, and its end, the start plus the duration widgets.
DefaultStartHour == 9

TimeWindowStart == DefaultStartHour * 60
TimeWindowEnd(total_duration_minutes) == TimeWindowStart + total_duration_minutes

\* ------------------------------------------------------------------ inputs
\* Three places in Rochester, NY, in millidegrees: a depot-like point, one a
\* third of a mile north of it, one four miles away.
Points ==
    {[latitude |-> 43100, longitude |-> -77600],
     [latitude |-> 43105, longitude |-> -77600],
     [latitude |-> 43160, longitude |-> -77610]}

\* The rows of a CSV file of valid locations; a row's name is its position.
RowsOf(ps) ==
    [i \in DOMAIN ps |->
        [name |-> i - 1, latitude |-> ps[i].latitude, longitude |-> ps[i].longitude]]

CsvFiles == {RowsOf(ps) : ps \in UNION {[1..k -> Points] : k \in 0..MaxLocs}}

\* The arguments of one call of solve_vrptw.
SolveArgs ==
    [csv_file : CsvFiles,
     num_vehicles : {1, 2},
     vehicle_capacity : {1, 2},
     service_time : {5, 20},
     time_window_start : {540},
     time_window_end : {570, 600},
     max_route_duration : {None, Some(20)},
     avg_speed_mph : {10, 30, 70},
     num_locations : {None} \cup {Some(k) : k \in 0..MaxLocs}]

\* Rows of an uploaded file, by what their cells hold: a good row, and rows
\* with one bad cell.
OkRow ==
    [name |-> "text", address |-> "text", latitude |-> "number", longitude |-> "number"]

BadRows ==
    {[OkRow EXCEPT !.name = "null"],
     [OkRow EXCEPT !.latitude = "text"],
     [OkRow EXCEPT !.longitude = "out_of_range"],
     [OkRow EXCEPT !.latitude = "null"],
     [OkRow EXCEPT !.longitude = "null"],
     [OkRow EXCEPT !.address = "null"]}

\* Row sequences: up to MaxLocs good rows; a good row and a bad one; and two
\* good rows and a bad third one (a missing name, a latitude that is not a
\* number), which a limit of 2 hides.
RowSeqs ==
    {[x \in 1..k |-> OkRow] : k \in 0..MaxLocs}
    \cup {<<OkRow, bad>> : bad \in BadRows}
    \cup {<<OkRow, OkRow, [OkRow EXCEPT !.name = "null"]>>,
          <<OkRow, OkRow, [OkRow EXCEPT !.latitude = "text"]>>}

\* The uploaded files: every row sequence under the full header, and one
\* file of two good rows whose header lacks the address column.
UploadedFiles ==
    {[columns |-> required_cols, rows |-> rows] : rows \in RowSeqs}
    \cup {[columns |-> required_cols \ {"address"}, rows |-> <<OkRow, OkRow>>]}

\* The values of the "Limit Locations" widget and of the duration widgets
\* (hours * 60 + minutes) that the user may set.
LocationLimits == {0, 1, 2}
Durations == {0, 480}

\* What triggers a script run: a click, a changed widget, or nothing of note.
Events ==
    {[kind |-> k, value |-> 0] : k \in {"none", "solve", "view_locations", "view_solution"}}
    \cup {[kind |-> "num_locations", value |-> n] : n \in LocationLimits}
    \cup {[kind |-> "duration", value |-> d] : d \in Durations}

\* What the external solver may do in the worker thread.
Outcomes == {"feasible", "infeasible", "exception"}

\* ------------------------------------------------------------------- state
\* One call of solve_vrptw.
VARIABLES
    args,                \* the arguments of the call of solve_vrptw
    pc,                  \* where the call is
    df,                  \* the rows in use
    distance_matrix,
    duration_matrix,
    max_route_duration,  \* the local, after its default
    model,               \* the PyVRP model m
    result,              \* what m.solve returned
    solution_data        \* the record returned

\* One session of the Streamlit app.
VARIABLES
    uploaded_file,       \* None, or the file in the uploader
    widgets,             \* num_locations and the duration of the time window
    session_state,       \* st.session_state
    page,                \* what the last script run rendered
    script,              \* the script run: its position and its locals
    threads,             \* the worker thread of each solve attempt
    tmp_files,           \* the temporary files on disk, <<attempt, suffix>>
    faults               \* the file operations that have failed so far

\* The progress loop of one solve attempt, with its clock.
VARIABLES
    clock,               \* time.time(), in units of 5 seconds
    start_time,
    max_runtime,         \* the "Max Solving Time" slider, in the same units
    thread_alive,        \* thread.is_alive()
    progress,            \* the value the progress bar shows, a fraction
    loop_pc              \* where the foreground is

solver_vars == <<args, pc, df, distance_matrix, duration_matrix,
                 max_route_duration, model, result, solution_data>>

app_vars == <<uploaded_file, widgets, session_state, page, script, threads, tmp_files,
              faults>>

loop_vars == <<clock, start_time, max_runtime, thread_alive, progress, loop_pc>>

vars == <<solver_vars, app_vars, loop_vars>>

\* The session, when only solve_vrptw is looked at.
AppOff ==
    /\ uploaded_file = None
    /\ widgets = None
    /\ session_state = None
    /\ page = None
    /\ script = None
    /\ threads = <<>>
    /\ tmp_files = {}
    /\ faults = 0

\* solve_vrptw's own state, when only the session is looked at.
SolverOff ==
    /\ args = None
    /\ pc = "off"
    /\ df = <<>>
    /\ distance_matrix = <<>>
    /\ duration_matrix = <<>>
    /\ max_route_duration = None
    /\ model = None
    /\ result = None
    /\ solution_data = None


\* The progress loop, when it is not looked at.
LoopOff ==
    /\ clock = 0
    /\ start_time = 0
    /\ max_runtime = 0
    /\ thread_alive = FALSE
    /\ progress = None
    /\ loop_pc = "off"
\* ------------------------------------------------ solve_vrptw, step by step
SolverInit ==
    /\ args \in SolveArgs
    /\ pc = "load"
    /\ df = <<>>
    /\ distance_matrix = <<>>
    /\ duration_matrix = <<>>
    /\ max_route_duration = None
    /\ model = None
    /\ result = None
    /\ solution_data = None
    /\ AppOff
    /\ LoopOff

\* pd.read_csv and the optional head(num_locations).
LoadLocations ==
    /\ pc = "load"
    /\ df' = SelectSubset(args.csv_file, args.num_locations)
    /\ pc' = "distance"
    /\ UNCHANGED <<args, distance_matrix, duration_matrix, max_route_duration,
                   model, result, solution_data>>
    /\ UNCHANGED <<app_vars, loop_vars>>

ComputeDistanceMatrix ==
    /\ pc = "distance"
    /\ distance_matrix' = compute_distance_matrix(df)
    /\ pc' = "duration"
    /\ UNCHANGED <<args, df, duration_matrix, max_route_duration, model, result,
                   solution_data>>
    /\ UNCHANGED <<app_vars, loop_vars>>

\* The duration matrix, then the default of max_route_duration.
ComputeDurationMatrix ==
    /\ pc = "duration"
    /\ duration_matrix' = compute_duration_matrix(distance_matrix, args.avg_speed_mph)
    /\ max_route_duration' =
          IF args.max_route_duration = None
          THEN Some(args.time_window_end - args.time_window_start)
          ELSE args.max_route_duration
    /\ pc' = "build"
    /\ UNCHANGED <<args, df, distance_matrix, model, result, solution_data>>
    /\ UNCHANGED <<app_vars, loop_vars>>

\* Building the model reads row 0 first: with no row, df.iloc[0] raises.
BuildModelStep ==
    /\ pc = "build"
    /\ IF Len(df) = 0
       THEN /\ pc' = "raised"
            /\ UNCHANGED model
       ELSE /\ model' = Some(BuildModel(args, df, distance_matrix, duration_matrix))
            /\ pc' = "solve"
    /\ UNCHANGED <<args, df, distance_matrix, duration_matrix, max_route_duration,
                   result, solution_data>>
    /\ UNCHANGED <<app_vars, loop_vars>>

\* m.solve: the optimiser returns one of its solutions.
Solve ==
    /\ pc = "solve"
    /\ \E rs \in Solutions(TheValue(model)) :
          result' = Some(SolverResult(TheValue(model), rs))
    /\ pc' = "process"
    /\ UNCHANGED <<args, df, distance_matrix, duration_matrix, max_route_duration,
                   model, solution_data>>
    /\ UNCHANGED <<app_vars, loop_vars>>

\* An infeasible result is returned as first built.
ReturnInfeasible ==
    /\ pc = "process"
    /\ ~TheValue(result).is_feasible
    /\ solution_data' = Some(initial_solution_data(TheValue(result), df))
    /\ pc' = "returned"
    /\ UNCHANGED <<args, df, distance_matrix, duration_matrix, max_route_duration,
                   model, result>>
    /\ UNCHANGED <<app_vars, loop_vars>>

\* A feasible result is aggregated; the summary then divides by num_routes.
ReturnFeasible ==
    /\ pc = "process"
    /\ TheValue(result).is_feasible
    /\ LET sd == feasible_solution_data(TheValue(result), df, distance_matrix,
                                        duration_matrix, args.service_time)
       IN  IF sd.num_routes = 0
           THEN /\ pc' = "raised"
                /\ UNCHANGED solution_data
           ELSE /\ solution_data' = Some(sd)
                /\ pc' = "returned"
    /\ UNCHANGED <<args, df, distance_matrix, duration_matrix, max_route_duration,
                   model, result>>
    /\ UNCHANGED <<app_vars, loop_vars>>

SolverNext ==
    \/ LoadLocations
    \/ ComputeDistanceMatrix
    \/ ComputeDurationMatrix
    \/ BuildModelStep
    \/ Solve
    \/ ReturnInfeasible
    \/ ReturnFeasible

SolverSpec == SolverInit /\ [][SolverNext]_vars

\* --------------------------------------------- vrptw_app.py, one session
\* threading.Thread.is_alive of the worker of an attempt, by its position.
Alive(t) == t \in {"start", "solving", "write"}

\* The locals of the script run that starts a solve attempt: solution_result
\* and exception_result, the one-slot lists the worker writes, are empty.
NewRun(ev, attempt, attempts) ==
    [pc |-> IF attempt > 0 THEN "mk_csv" ELSE "idle",
     attempt |-> attempt, attempts |-> attempts, solve_button |-> ev.kind = "solve",
     rerun |-> FALSE,
     solution_result |-> None, exception_result |-> None, df |-> None]

\* The end of a script run: its locals are gone.
EndOfRun(s) ==
    [s EXCEPT !.pc = "idle", !.solution_result = None, !.exception_result = None,
              !.df = None]

\* A worker that fills both lists whatever it has to report.
Store_both_slots(k, slot, value) ==
    IF script.attempt = k /\ script.pc # "idle"
    THEN [script EXCEPT !.solution_result = Some(value), !.exception_result = Some(value)]
    ELSE script

\* The worker of attempt k stores into the lists of the run that started it;
\* once that run has ended nothing can read them any more.
Store(k, slot, value) ==
    IF script.attempt = k /\ script.pc # "idle"
    THEN [script EXCEPT ![slot] = Some(value)]
    ELSE script

\* A file operation of the foreground (creating, reading back or unlinking a
\* temporary file) may fail while the budget of failures lasts.
MayFail == faults < MaxFaults

EmptyPage ==
    [solve_button |-> "absent", view_buttons |-> FALSE,
     status_placeholder |-> "empty", progress_placeholder |-> "empty", shown |-> {}]

\* Before the first script run: the session-state defaults of lines 38-48,
\* the widgets at their defaults, nothing rendered.
AppInit ==
    /\ uploaded_file \in {None} \cup {Some(f) : f \in UploadedFiles}
    /\ widgets = [num_locations |-> 0, duration |-> 480]
    /\ session_state = [solution_data |-> None, solution_html |-> None,
                        solution_json |-> None, current_view |-> "unset",
                        solving |-> FALSE]
    /\ page = EmptyPage
    /\ script = NewRun([kind |-> "none"], 0, 0)
    /\ threads = [k \in 1..MaxAttempts |-> "none"]
    /\ tmp_files = {}
    /\ faults = 0
    /\ SolverOff
    /\ LoopOff

\* A script whose solve handler keeps the stored solution and the view.
run_to_handler_keeps_solution(file, w, ss, ev) ==
    IF file = None
    THEN [session_state |-> ss, attempt |-> FALSE,
          page |-> [EmptyPage EXCEPT !.shown = {"info_upload"}]]
    ELSE
    LET f            == TheValue(file)
        solve_button == ev.kind = "solve"
        sidebar      == [EmptyPage EXCEPT
                            !.solve_button = IF ss.solving THEN "disabled" ELSE "enabled"]
        df_display   == DisplayRows(f.rows, w.num_locations)
        missing_cols == required_cols \ f.columns
        v            == validate(df_display)
        has_solution == ss.solution_data # None
        view0        == IF ss.current_view = "unset" THEN "locations" ELSE ss.current_view
        view1        == IF ev.kind = "view_locations" THEN "locations" ELSE view0
        view2        == IF ev.kind = "view_solution" THEN "solution" ELSE view1
        ss1          == IF has_solution THEN [ss EXCEPT !.current_view = view2] ELSE ss
        cleared      == ss1
        loaded       == [sidebar EXCEPT !.shown = {"success_loaded"},
                                        !.view_buttons = has_solution]
    IN  IF missing_cols # {}
        THEN [session_state |-> ss, attempt |-> FALSE,
              page |-> [sidebar EXCEPT !.shown = {"err_missing_cols"}]]
        ELSE IF ~v.validation_passed
        THEN [session_state |-> ss, attempt |-> FALSE,
              page |-> [sidebar EXCEPT !.shown = Range(v.error_messages)]]
        ELSE IF ~solve_button
        THEN [session_state |-> ss1, attempt |-> FALSE, page |-> loaded]
        ELSE IF time_window_invalid(TimeWindowStart, TimeWindowEnd(w.duration))
        THEN [session_state |-> cleared, attempt |-> FALSE,
              page |-> [loaded EXCEPT !.shown = @ \cup {"err_time_window"}]]
        ELSE [session_state |-> cleared, attempt |-> TRUE, page |-> loaded]

\* The script from its top to the solve handler's time-window test (lines
\* 38-522), as a function of the file, the widgets, the session state and the
\* event that triggered the run.  attempt says whether a solve attempt begins.
run_to_handler(file, w, ss, ev) ==
    IF file = None
    THEN [session_state |-> ss, attempt |-> FALSE,
          page |-> [EmptyPage EXCEPT !.shown = {"info_upload"}]]
    ELSE
    LET f            == TheValue(file)
        solve_button == ev.kind = "solve"
        sidebar      == [EmptyPage EXCEPT
                            !.solve_button = IF ss.solving THEN "disabled" ELSE "enabled"]
        df_display   == DisplayRows(f.rows, w.num_locations)
        missing_cols == required_cols \ f.columns
        v            == validate(df_display)
        has_solution == ss.solution_data # None
        view0        == IF ss.current_view = "unset" THEN "locations" ELSE ss.current_view
        view1        == IF ev.kind = "view_locations" THEN "locations" ELSE view0
        view2        == IF ev.kind = "view_solution" THEN "solution" ELSE view1
        ss1          == IF has_solution THEN [ss EXCEPT !.current_view = view2] ELSE ss
        cleared      == [ss1 EXCEPT !.solution_data = None, !.solution_json = None,
                                    !.solution_html = None, !.current_view = "locations"]
        loaded       == [sidebar EXCEPT !.shown = {"success_loaded"},
                                        !.view_buttons = has_solution]
    IN  IF missing_cols # {}
        THEN [session_state |-> ss, attempt |-> FALSE,
              page |-> [sidebar EXCEPT !.shown = {"err_missing_cols"}]]
        ELSE IF ~v.validation_passed
        THEN [session_state |-> ss, attempt |-> FALSE,
              page |-> [sidebar EXCEPT !.shown = Range(v.error_messages)]]
        ELSE IF ~solve_button
        THEN [session_state |-> ss1, attempt |-> FALSE, page |-> loaded]
        ELSE IF time_window_invalid(TimeWindowStart, TimeWindowEnd(w.duration))
        THEN [session_state |-> cleared, attempt |-> FALSE,
              page |-> [loaded EXCEPT !.shown = @ \cup {"err_time_window"}]]
        ELSE [session_state |-> cleared, attempt |-> TRUE, page |-> loaded]

\* An event needs its widget on the page: the Solve button enabled, the view
\* buttons rendered, the sidebar widgets rendered (a file is uploaded).  The
\* run that st.rerun() asked for starts by itself, with no event.
EventPossible(ev) ==
    CASE script.rerun -> ev.kind = "none"
      [] ev.kind = "solve" ->
            page.solve_button = "enabled" /\ script.attempts < MaxAttempts
      [] ev.kind \in {"view_locations", "view_solution"} -> page.view_buttons
      [] ev.kind = "num_locations" ->
            page.solve_button # "absent" /\ ev.value # widgets.num_locations
      [] ev.kind = "duration" ->
            page.solve_button # "absent" /\ ev.value # widgets.duration
      [] OTHER -> TRUE

WidgetsAfter(ev) ==
    CASE ev.kind = "num_locations" -> [widgets EXCEPT !.num_locations = ev.value]
      [] ev.kind = "duration" -> [widgets EXCEPT !.duration = ev.value]
      [] OTHER -> widgets

\* A script run starts: it ends at once, or stands before the creation of
\* the temporary CSV file of a new solve attempt.
RunScript ==
    /\ script.pc = "idle"
    /\ \E ev \in Events :
          /\ EventPossible(ev)
          /\ LET w   == WidgetsAfter(ev)
                 out == run_to_handler(uploaded_file, w, session_state, ev)
             IN  /\ widgets' = w
                 /\ session_state' = out.session_state
                 /\ page' = out.page
                 /\ script' = IF out.attempt
                               THEN NewRun(ev, script.attempts + 1, script.attempts + 1)
                               ELSE NewRun(ev, 0, script.attempts)
    /\ UNCHANGED <<uploaded_file, threads, tmp_files, faults, solver_vars, loop_vars>>

\* An exception before the try block reaches the outer handler of line 643:
\* the error is shown and the run ends; nothing is cleaned up.
OuterExcept ==
    /\ page' = [page EXCEPT !.shown = @ \cup {"err_loading_csv"}]
    /\ script' = EndOfRun(script)
    /\ faults' = faults + 1

\* Lines 524-526: the temporary CSV.  NamedTemporaryFile may fail (no file),
\* or df.to_csv may fail after the file was made.
CreateCsv ==
    /\ script.pc = "mk_csv"
    /\ \E how \in {"ok", "no_file", "write_failed"} :
          /\ how # "ok" => MayFail
          /\ tmp_files' = IF how = "no_file" THEN tmp_files
                          ELSE tmp_files \cup {<<script.attempt, "csv">>}
          /\ IF how = "ok"
             THEN script' = [script EXCEPT !.pc = "mk_json"] /\ UNCHANGED <<page, faults>>
             ELSE OuterExcept
    /\ UNCHANGED <<uploaded_file, widgets, session_state, threads, solver_vars, loop_vars>>

\* Line 529: the temporary JSON file.
CreateJson ==
    /\ script.pc = "mk_json"
    /\ \E ok \in BOOLEAN :
          /\ ~ok => MayFail
          /\ IF ok
             THEN /\ tmp_files' = tmp_files \cup {<<script.attempt, "json">>}
                  /\ script' = [script EXCEPT !.pc = "mk_html"]
                  /\ UNCHANGED <<page, faults>>
             ELSE OuterExcept /\ UNCHANGED tmp_files
    /\ UNCHANGED <<uploaded_file, widgets, session_state, threads, solver_vars, loop_vars>>

\* Lines 530-532: the temporary HTML file.
CreateHtml ==
    /\ script.pc = "mk_html"
    /\ \E ok \in BOOLEAN :
          /\ ~ok => MayFail
          /\ IF ok
             THEN /\ tmp_files' = tmp_files \cup {<<script.attempt, "html">>}
                  /\ script' = [script EXCEPT !.pc = "try"]
                  /\ UNCHANGED <<page, faults>>
             ELSE OuterExcept /\ UNCHANGED tmp_files
    /\ UNCHANGED <<uploaded_file, widgets, session_state, threads, solver_vars, loop_vars>>

\* Lines 534-571: solving is set, the status and the progress bar are shown,
\* the worker thread is started.
EnterTry ==
    /\ script.pc = "try"
    /\ session_state' = [session_state EXCEPT !.solving = TRUE]
    /\ page' = [page EXCEPT !.status_placeholder = "info",
                            !.progress_placeholder = "bar"]
    /\ threads' = [threads EXCEPT ![script.attempt] = "start"]
    /\ script' = [script EXCEPT !.pc = "poll"]
    /\ UNCHANGED <<uploaded_file, widgets, tmp_files, faults, solver_vars, loop_vars>>

\* solve_vrptw lines 157-161 on the temporary CSV of line 525, which holds
\* the whole of df, with the num_locations of line 564: the frame the solver
\* goes on with.
LoadedFrame(rows, num_locations) ==
    LET frame == read_csv(to_csv(rows))
    IN  [frame EXCEPT !.rows = SelectSubset(frame.rows,
                                   IF num_locations > 0 THEN Some(num_locations) ELSE None)]

\* math.radians of a coordinate held as a string raises TypeError (line 44).
RadiansRaises(frame) == \E col \in coordinate_cols : frame.dtypes[col] = "object"

\* The worker: solve_vrptw reads the temporary CSV; a missing file raises,
\* and solve_thread stores the exception.  script.df is the frame the worker
\* of the run under way has loaded.
WorkerLoad ==
    \E k \in DOMAIN threads :
        /\ threads[k] = "start"
        /\ IF <<k, "csv">> \in tmp_files
           THEN /\ threads' = [threads EXCEPT ![k] = "solving"]
                /\ script' = IF script.attempt = k /\ script.pc # "idle"
                              THEN [script EXCEPT !.df =
                                       Some(LoadedFrame(TheValue(uploaded_file).rows,
                                                        widgets.num_locations))]
                              ELSE script
           ELSE /\ threads' = [threads EXCEPT ![k] = "done"]
                /\ script' = Store(k, "exception_result", "FileNotFoundError")
        /\ UNCHANGED <<uploaded_file, widgets, session_state, page, tmp_files, faults,
                       solver_vars, loop_vars>>

\* The worker: solve_vrptw builds the model and the optimiser runs.  An
\* infeasible record is returned before anything is written; an exception is
\* stored by solve_thread.  Coordinates loaded as strings raise in the
\* distance matrix.
WorkerSolve ==
    \E k \in DOMAIN threads : \E outcome \in Outcomes :
        /\ threads[k] = "solving"
        /\ (script.attempt = k /\ script.df # None /\ RadiansRaises(TheValue(script.df)))
              => outcome = "exception"
        /\ threads' = [threads EXCEPT ![k] = IF outcome = "feasible" THEN "write" ELSE "done"]
        /\ script' =
              CASE outcome = "feasible" -> script
                [] outcome = "infeasible" ->
                      Store(k, "solution_result", [feasible |-> FALSE, attempt |-> k])
                [] OTHER -> Store(k, "exception_result", "Exception")
        /\ UNCHANGED <<uploaded_file, widgets, session_state, page, tmp_files, faults,
                       solver_vars, loop_vars>>

\* The worker: a feasible record is written to output_json and the map to
\* output_plot (open(..., 'w') and m.save make the files if need be), then
\* returned into solution_result[0].
WorkerWrite ==
    \E k \in DOMAIN threads :
        /\ threads[k] = "write"
        /\ tmp_files' = tmp_files \cup {<<k, "json">>, <<k, "html">>}
        /\ threads' = [threads EXCEPT ![k] = "done"]
        /\ script' = Store(k, "solution_result", [feasible |-> TRUE, attempt |-> k])
        /\ UNCHANGED <<uploaded_file, widgets, session_state, page, faults, solver_vars, loop_vars>>

\* A rerun or stop request (any widget the user touches while the script
\* runs) is raised inside the next st call of the polling loop as a script
\* control exception, a BaseException: `except Exception` lets it pass and
\* the finally block runs.
Interrupt ==
    /\ script.pc = "poll"
    /\ script' = [script EXCEPT !.pc = "finally"]
    /\ UNCHANGED <<uploaded_file, widgets, session_state, page, threads, tmp_files,
                   faults, solver_vars, loop_vars>>

\* A handler that leaves the solving flag as it is.
ExceptHandler_keeps_solving ==
    /\ session_state' = session_state
    /\ page' = [page EXCEPT !.status_placeholder = "empty",
                            !.progress_placeholder = "empty",
                            !.shown = @ \cup {"err_solving"}]
    /\ script' = [script EXCEPT !.pc = "finally"]

\* A handler that reports the exception as an infeasible problem.
ExceptHandler_as_infeasible ==
    /\ session_state' = [session_state EXCEPT !.solving = FALSE]
    /\ page' = [page EXCEPT !.status_placeholder = "empty",
                            !.progress_placeholder = "empty",
                            !.shown = @ \cup {"err_no_feasible"}]
    /\ script' = [script EXCEPT !.pc = "finally"]

\* The `except Exception` handler of lines 624-628.
ExceptHandler ==
    /\ session_state' = [session_state EXCEPT !.solving = FALSE]
    /\ page' = [page EXCEPT !.status_placeholder = "empty",
                            !.progress_placeholder = "empty",
                            !.shown = @ \cup {"err_solving"}]
    /\ script' = [script EXCEPT !.pc = "finally"]

\* Lines 575-609: the loop ends once the thread is no longer alive; the
\* exception of the worker is re-raised, or the result is taken, solving is
\* reset, and an infeasible result is reported.
LoopExit ==
    /\ script.pc = "poll"
    /\ ~Alive(threads[script.attempt])
    /\ LET t == script
       IN  IF t.exception_result # None
           THEN ExceptHandler
           ELSE IF ~TheValue(t.solution_result).feasible
           THEN /\ session_state' = [session_state EXCEPT !.solving = FALSE]
                /\ page' = [page EXCEPT !.status_placeholder = "empty",
                                        !.progress_placeholder = "empty",
                                        !.shown = @ \cup {"err_no_feasible"}]
                /\ script' = [script EXCEPT !.pc = "finally"]
           ELSE /\ session_state' = [session_state EXCEPT
                                        !.solving = FALSE,
                                        !.solution_data = t.solution_result]
                /\ page' = [page EXCEPT !.status_placeholder = "empty",
                                        !.progress_placeholder = "empty"]
                /\ script' = [script EXCEPT !.pc = "read_html"]
    /\ UNCHANGED <<uploaded_file, widgets, threads, tmp_files, faults, solver_vars, loop_vars>>

\* Lines 613-614: the map is read back; open() or read() may fail.
ReadHtml ==
    /\ script.pc = "read_html"
    /\ \E ok \in BOOLEAN :
          /\ ~ok => MayFail
          /\ IF ok /\ <<script.attempt, "html">> \in tmp_files
             THEN /\ session_state' = [session_state EXCEPT
                                          !.solution_html = Some(<<script.attempt, "html">>)]
                  /\ script' = [script EXCEPT !.pc = "read_json"]
                  /\ UNCHANGED <<page, faults>>
             ELSE ExceptHandler /\ faults' = IF ok THEN faults ELSE faults + 1
    /\ UNCHANGED <<uploaded_file, widgets, threads, tmp_files, solver_vars, loop_vars>>

\* Lines 615-622: the JSON is read back, the view switches to the solution,
\* and st.rerun() leaves the script through the finally block.
ReadJson ==
    /\ script.pc = "read_json"
    /\ \E ok \in BOOLEAN :
          /\ ~ok => MayFail
          /\ IF ok /\ <<script.attempt, "json">> \in tmp_files
             THEN /\ session_state' = [session_state EXCEPT
                                          !.solution_json = Some(<<script.attempt, "json">>),
                                          !.current_view = "solution"]
                  /\ script' = [script EXCEPT !.pc = "finally", !.rerun = TRUE]
                  /\ UNCHANGED <<page, faults>>
             ELSE ExceptHandler /\ faults' = IF ok THEN faults ELSE faults + 1
    /\ UNCHANGED <<uploaded_file, widgets, threads, tmp_files, solver_vars, loop_vars>>

\* The files the cleanup of lines 636-641 removes: the three unlinks run in
\* order inside one try, so the first that fails (stopped_at) ends it.
Unlinked(attempt, stopped_at) ==
    CASE stopped_at = "csv" -> {}
      [] stopped_at = "json" -> {<<attempt, "csv">>}
      [] stopped_at = "html" -> {<<attempt, "csv">>, <<attempt, "json">>}
      [] OTHER -> {<<attempt, "csv">>, <<attempt, "json">>, <<attempt, "html">>}

\* A finally block that leaves the status and the progress bar on the page.
Finally_keeps_placeholders ==
    /\ script.pc = "finally"
    /\ session_state' = [session_state EXCEPT !.solving = FALSE]
    /\ page' = page
    /\ \E stopped_at \in {"csv", "json", "html", "nowhere"} :
          /\ stopped_at # "nowhere" => MayFail
          /\ tmp_files' = tmp_files \ Unlinked(script.attempt, stopped_at)
          /\ faults' = IF stopped_at = "nowhere" THEN faults ELSE faults + 1
    /\ script' = [EndOfRun(script) EXCEPT !.rerun = script.rerun]
    /\ UNCHANGED <<uploaded_file, widgets, threads, solver_vars, loop_vars>>

\* Lines 630-641: the finally block, and the end of the script run.
Finally ==
    /\ script.pc = "finally"
    /\ session_state' = [session_state EXCEPT !.solving = FALSE]
    /\ page' = [page EXCEPT !.status_placeholder = "empty",
                            !.progress_placeholder = "empty"]
    /\ \E stopped_at \in {"csv", "json", "html", "nowhere"} :
          /\ stopped_at # "nowhere" => MayFail
          /\ tmp_files' = tmp_files \ Unlinked(script.attempt, stopped_at)
          /\ faults' = IF stopped_at = "nowhere" THEN faults ELSE faults + 1
    /\ script' = [EndOfRun(script) EXCEPT !.rerun = script.rerun]
    /\ UNCHANGED <<uploaded_file, widgets, threads, solver_vars, loop_vars>>

AppNext ==
    \/ RunScript
    \/ CreateCsv
    \/ CreateJson
    \/ CreateHtml
    \/ EnterTry
    \/ WorkerLoad
    \/ WorkerSolve
    \/ WorkerWrite
    \/ Interrupt
    \/ LoopExit
    \/ ReadHtml
    \/ ReadJson
    \/ Finally

AppSpec == AppInit /\ [][AppNext]_vars

\* The interpreter keeps running a script run that can go on: leaving the
\* polling loop, reading the files back, the finally block.  Nothing is
\* asked of the user or of the worker.
Foreground == LoopExit \/ ReadHtml \/ ReadJson \/ Finally

FairAppSpec == AppSpec /\ WF_vars(Foreground)

\* ------------------------------- vrptw_app.py, the progress loop by itself
\* Lines 539-584 once more, step by step and with the clock, for one solve
\* attempt.  Times are whole multiples of 5 seconds; time.time() is taken
\* to run forwards.  A fraction is a record of numerator and denominator.

Frac(n, d) == [num |-> n, den |-> d]
FracLess(p, q) == p.num * q.den < q.num * p.den
FracLeq(p, q) == p.num * q.den <= q.num * p.den
FracMin(p, q) == IF FracLess(q, p) THEN q ELSE p

\* The slider goes from 10 to 300 seconds: 10 and 15 seconds here.
MaxRuntimes == {2, 3}

\* An estimate that takes the larger of the two values, so has no cap.
progress_estimate_max(elapsed) ==
    IF FracLess(Frac(elapsed, max_runtime), Frac(99, 100))
    THEN Frac(99, 100) ELSE Frac(elapsed, max_runtime)

\* progress = min(elapsed / max_runtime, 0.99)
progress_estimate(elapsed) == FracMin(Frac(elapsed, max_runtime), Frac(99, 100))

LoopInit ==
    /\ clock = 0
    /\ start_time = 0
    /\ max_runtime \in MaxRuntimes
    /\ thread_alive = FALSE
    /\ progress = None
    /\ loop_pc = "before"
    /\ AppOff
    /\ SolverOff

\* Time passes.
Tick ==
    /\ clock < MaxClock
    /\ clock' = clock + 1
    /\ UNCHANGED <<start_time, max_runtime, thread_alive, progress, loop_pc>>

\* Lines 542-574: the bar is made at 0, the thread started, the time taken.
StartLoop ==
    /\ loop_pc = "before"
    /\ progress' = Some(Frac(0, 1))
    /\ thread_alive' = TRUE
    /\ start_time' = clock
    /\ loop_pc' = "test"
    /\ UNCHANGED <<clock, max_runtime>>

\* solve_thread returns.
ThreadEnds ==
    /\ thread_alive
    /\ thread_alive' = FALSE
    /\ UNCHANGED <<clock, start_time, max_runtime, progress, loop_pc>>

\* Line 575: while thread.is_alive()
TestAlive ==
    /\ loop_pc = "test"
    /\ loop_pc' = IF thread_alive THEN "show" ELSE "join"
    /\ UNCHANGED <<clock, start_time, max_runtime, thread_alive, progress>>

\* Lines 576-579: the estimate is shown, then the loop sleeps.
ShowProgress ==
    /\ loop_pc = "show"
    /\ progress' = Some(progress_estimate(clock - start_time))
    /\ loop_pc' = "test"
    /\ UNCHANGED <<clock, start_time, max_runtime, thread_alive>>

\* The script run is stopped inside progress_bar.progress: nothing more is
\* shown.
StopLoop ==
    /\ loop_pc = "show"
    /\ loop_pc' = "stopped"
    /\ UNCHANGED <<clock, start_time, max_runtime, thread_alive, progress>>

\* Lines 581-584: join, then the bar is completed.
CompleteProgress ==
    /\ loop_pc = "join"
    /\ ~thread_alive
    /\ progress' = Some(Frac(1, 1))
    /\ loop_pc' = "after"
    /\ UNCHANGED <<clock, start_time, max_runtime, thread_alive>>

LoopNext ==
    \/ Tick /\ UNCHANGED <<solver_vars, app_vars>>
    \/ StartLoop /\ UNCHANGED <<solver_vars, app_vars>>
    \/ ThreadEnds /\ UNCHANGED <<solver_vars, app_vars>>
    \/ TestAlive /\ UNCHANGED <<solver_vars, app_vars>>
    \/ ShowProgress /\ UNCHANGED <<solver_vars, app_vars>>
    \/ StopLoop /\ UNCHANGED <<solver_vars, app_vars>>
    \/ CompleteProgress /\ UNCHANGED <<solver_vars, app_vars>>

ProgressSpec == LoopInit /\ [][LoopNext]_vars
\* ================================================================== claims
\* Under SolverSpec.
Returned == pc = "returned"
MatricesBuilt == pc \notin {"load", "distance", "duration"}
sd == TheValue(solution_data)

\* The sum of the entries of matrix mx along the consecutive legs of a path.
RECURSIVE LegSum(_, _)
LegSum(mx, path) ==
    IF Len(path) < 2 THEN 0
    ELSE mx[path[1]][path[2]] + LegSum(mx, Tail(path))

DepotToDepot(visits) == <<0>> \o visits \o <<0>>

\* C1: every route of a feasible record has as distance the sum of the
\* distance matrix along depot -> v1 -> ... -> vk -> depot, and as duration
\* the sum of the duration matrix along those k+1 legs plus k service times.
C1_RouteMetrics ==
    (Returned /\ sd.feasible) =>
        \A x \in DOMAIN sd.routes :
            LET route == sd.routes[x]
            IN  /\ route.distance = LegSum(distance_matrix, DepotToDepot(route.visits))
                /\ route.duration = LegSum(duration_matrix, DepotToDepot(route.visits))
                                    + Len(route.visits) * args.service_time

\* A feasible record with a route of two visits and a return leg that takes time.
C1_Witness ==
    /\ Returned /\ sd.feasible
    /\ \E x \in DOMAIN sd.routes :
          /\ Len(sd.routes[x].visits) = 2
          /\ duration_matrix[sd.routes[x].visits[2]][0] > 0
          /\ sd.routes[x].distance > 0

NonEmpty(visits) == visits # <<>>

\* C2: the record keeps exactly the solver's routes that have a visit, in
\* order; num_routes counts them and the totals are the sums over them.
C2_EmptyRoutesDropped ==
    Returned =>
        /\ \A x \in DOMAIN sd.routes : sd.routes[x].visits # <<>>
        /\ sd.feasible =>
              [x \in DOMAIN sd.routes |-> sd.routes[x].visits]
                  = SelectSeq(TheValue(result).routes, NonEmpty)
        /\ sd.num_routes = Len(sd.routes)
        /\ sd.total_distance = SumSeq([x \in DOMAIN sd.routes |-> sd.routes[x].distance])
        /\ sd.total_duration = SumSeq([x \in DOMAIN sd.routes |-> sd.routes[x].duration])

\* A feasible record made from a solver result that held a route of no visits
\* beside one with visits.
C2_Witness ==
    /\ Returned /\ sd.feasible
    /\ \E x \in DOMAIN TheValue(result).routes : TheValue(result).routes[x] = <<>>
    /\ sd.num_routes = 1
    /\ sd.total_duration > 0

\* C3: the record's feasible field is the solver's verdict; an infeasible
\* record has no cost, no routes and zero totals; the cost is present exactly
\* when the record is feasible.
C3_InfeasiblePassThrough ==
    Returned =>
        /\ sd.feasible = TheValue(result).is_feasible
        /\ ~sd.feasible =>
              /\ sd.cost = None
              /\ sd.routes = <<>>
              /\ sd.num_routes = 0
              /\ sd.total_distance = 0
              /\ sd.total_duration = 0
        /\ (sd.cost # None) <=> sd.feasible

\* An infeasible record although the solver returned routes with visits.
C3_Witness ==
    /\ Returned /\ ~sd.feasible
    /\ \E x \in DOMAIN TheValue(result).routes : TheValue(result).routes[x] # <<>>

\* C4: no route of a feasible record lasts longer than max_route_duration
\* (the argument, or the span of the time window when it is None).
C4_MaxRouteDurationRespected ==
    (Returned /\ sd.feasible) =>
        \A x \in DOMAIN sd.routes :
            sd.routes[x].duration <= TheValue(max_route_duration)

\* C5: both matrices are n x n over the n rows in use, with a zero
\* diagonal, symmetric, and without a negative entry.
SquareSymmetric(mx, n) ==
    /\ DOMAIN mx = 0..(n - 1)
    /\ \A i \in 0..(n - 1) :
          /\ DOMAIN mx[i] = 0..(n - 1)
          /\ mx[i][i] = 0
          /\ \A j \in 0..(n - 1) : mx[i][j] = mx[j][i] /\ mx[i][j] >= 0

C5_MatricesSymmetric ==
    MatricesBuilt =>
        /\ SquareSymmetric(distance_matrix, Len(df))
        /\ SquareSymmetric(duration_matrix, Len(df))

\* Three rows at three different places: every off-diagonal distance is positive.
C5_Witness ==
    /\ MatricesBuilt
    /\ Len(df) = 3
    /\ \A i, j \in 0..2 : i # j => distance_matrix[i][j] > 0
    /\ \E i, j \in 0..2 : duration_matrix[i][j] > 0

\* C6: the duration of a pair is the whole number of minutes t with
\* t <= distance / speed * 60 < t + 1 (the distance in milli-miles), so a
\* leg of less than one minute has duration 0.
C6_DurationTruncated ==
    MatricesBuilt =>
        \A i \in DOMAIN distance_matrix : \A j \in DOMAIN distance_matrix[i] :
            LET d == distance_matrix[i][j]
                t == duration_matrix[i][j]
                s == args.avg_speed_mph
            IN  /\ t * s * 1000 <= d * 60
                /\ d * 60 < (t + 1) * s * 1000
                /\ (d * 60 < s * 1000) => t = 0

\* A leg of positive length and duration 0, and a leg whose travel time is
\* more than half a minute above its duration.
C6_Witness ==
    /\ MatricesBuilt
    /\ \E i, j \in DOMAIN distance_matrix :
          distance_matrix[i][j] > 0 /\ duration_matrix[i][j] = 0
    /\ \E i, j \in DOMAIN distance_matrix :
          /\ duration_matrix[i][j] > 0
          /\ distance_matrix[i][j] * 60
                > duration_matrix[i][j] * args.avg_speed_mph * 1000
                  + args.avg_speed_mph * 500


\* ------------------------------------------------- properties of the app
\* The script has run at least once in this session.
HasRun == page # EmptyPage

\* What the user sees of the file under the location limit.
ShownRows == DisplayRows(TheValue(uploaded_file).rows, widgets.num_locations)

\* The input is one the validation has to turn down: a required column is
\* missing, fewer than 2 rows remain, a coordinate is not a number in range,
\* or a required field is null.
InputRejected ==
    /\ uploaded_file # None
    /\ \/ ~(required_cols \subseteq TheValue(uploaded_file).columns)
       \/ Len(ShownRows) < 2
       \/ \E x \in DOMAIN ShownRows :
             \/ ShownRows[x].latitude # "number"
             \/ ShownRows[x].longitude # "number"
             \/ ShownRows[x].name = "null"
             \/ ShownRows[x].address = "null"

ValidationErrors ==
    {"err_missing_cols", "min_rows", "numeric", "lat_range", "lon_range", "missing_values"}

\* The script run in progress, or the last one, began no solve attempt: it
\* creates no temporary file and starts no worker.
NoAttempt == script.pc = "idle" /\ script.attempt = 0

\* C7: a script run over input that fails validation (missing column, fewer
\* than 2 rows, coordinate not numeric or out of range, null field) reports
\* an error and begins no solve attempt, so it starts no worker and never
\* calls solve_vrptw, whether or not Solve was clicked.
C7_NoSolveAfterFailedValidation ==
    (HasRun /\ InputRejected) =>
        /\ NoAttempt
        /\ page.shown \cap ValidationErrors # {}

\* Solve was clicked on input whose only flaw is a null field, the last of
\* the checks.
C7_Witness ==
    /\ HasRun /\ InputRejected /\ script.solve_button
    /\ "missing_values" \in page.shown

\* C8: a click on Solve with time_window_end <= time_window_start is turned
\* down with the time-window error before anything is made: the run begins
\* no solve attempt (no temporary file, no worker, no call of solve_vrptw).
C8_EmptyWindowRejected ==
    (HasRun /\ uploaded_file # None
        /\ TimeWindowEnd(widgets.duration) <= TimeWindowStart) =>
        /\ NoAttempt
        /\ (script.solve_button /\ ~InputRejected) => "err_time_window" \in page.shown

C8_Witness ==
    /\ script.solve_button /\ ~InputRejected
    /\ TimeWindowEnd(widgets.duration) <= TimeWindowStart
    /\ "err_time_window" \in page.shown
    /\ NoAttempt

\* C9: every temporary file on disk belongs to the solve attempt that is in
\* progress; once an attempt has ended none of its files is left.
C9_TempFilesReleased ==
    \A f \in tmp_files : script.pc # "idle" /\ f[1] = script.attempt

\* C10: at most one worker thread is alive in the session at any time.
C10_OneSolveInFlight ==
    Cardinality({k \in DOMAIN threads : Alive(threads[k])}) <= 1

\* ------------------------------------------- the worker and its result
\* The worker of the attempt the script run is in.
worker == threads[script.attempt]

Slots == {"solution_result", "exception_result"}

SlotsSet(s) == {slot \in Slots : s[slot] # None}

\* The foreground takes the result: the step out of the polling loop that
\* re-raises the worker's exception or uses its record (a stopped run leaves
\* the loop without touching the page or the session state).
ReadsResult ==
    /\ script.pc = "poll"
    /\ script'.pc # "poll"
    /\ (page' # page \/ session_state' # session_state)

\* C11: a slot of solution_result / exception_result is filled only by the
\* worker, in the step in which it ends, and only while empty; the foreground
\* takes the result only when the worker is no longer alive, and then
\* exactly one of the two slots is filled.
C11_ResultHolder ==
    [][/\ \A slot \in Slots :
             (script'[slot] # script[slot] /\ script'[slot] # None) =>
                 /\ script[slot] = None
                 /\ script'.attempt = script.attempt
                 /\ Alive(worker)
                 /\ threads'[script.attempt] = "done"
       /\ ReadsResult =>
             /\ ~Alive(worker)
             /\ Cardinality(SlotsSet(script)) = 1]_vars

\* The foreground has taken a feasible record from its finished worker while
\* the worker of an earlier, stopped run is still alive.
C11_Witness ==
    /\ script.pc = "read_html"
    /\ worker = "done"
    /\ script.solution_result # None /\ script.exception_result = None
    /\ \E k \in DOMAIN threads : k # script.attempt /\ Alive(threads[k])

\* ------------------------------------------------------- the progress bar
elapsed == clock - start_time

One == Frac(1, 1)

\* C12: every value the loop shows is min(elapsed / max_runtime, 0.99); the
\* values shown never go down; while the worker is alive the bar is below
\* 100%, however long the solve takes; 100% appears only once the worker has
\* ended.
C12_ProgressBelowFullWhileAlive ==
    [][progress' # progress =>
          LET new == TheValue(progress')
          IN  /\ loop_pc = "show" =>
                    /\ FracLeq(new, Frac(99, 100))
                    /\ FracLeq(new, Frac(elapsed, max_runtime))
                    /\ new = Frac(99, 100) \/ new = Frac(elapsed, max_runtime)
              /\ progress # None => FracLeq(TheValue(progress), new)
              /\ thread_alive' => FracLess(new, One)
              /\ new = One => ~thread_alive']_vars

\* The solve has run past its budget, the worker is still alive and the bar
\* has been set to the cap.
C12_Witness ==
    /\ thread_alive
    /\ loop_pc = "test"
    /\ elapsed > max_runtime
    /\ progress = Some(Frac(99, 100))

\* --------------------------------------------------- a failed solve
NoSolutionStored ==
    /\ session_state.solution_data = None
    /\ session_state.solution_json = None
    /\ session_state.solution_html = None

HasNull(row) == \E col \in required_cols : row[col] = "null"

\* C14: a file with the four columns and at least 2 rows that has a null in
\* a required column, whichever it is, is turned down with the message for
\* missing values.
C14_NullGivesMissingValueError ==
    (/\ HasRun
     /\ uploaded_file # None
     /\ required_cols \subseteq TheValue(uploaded_file).columns
     /\ Len(ShownRows) >= 2
     /\ \E x \in DOMAIN ShownRows : HasNull(ShownRows[x]))
    => "missing_values" \in page.shown

\* ------------------------------------------------- the minimum of rows
AllRows == TheValue(uploaded_file).rows

Min2(a, b) == IF a < b THEN a ELSE b

HasRequiredCols ==
    uploaded_file # None /\ required_cols \subseteq TheValue(uploaded_file).columns

CapBelowRows ==
    /\ args.num_locations # None
    /\ TheValue(args.num_locations) > 0
    /\ TheValue(args.num_locations) < Len(args.csv_file)

IsSquare(mx, n) ==
    /\ DOMAIN mx = 0..(n - 1)
    /\ \A i \in 0..(n - 1) : DOMAIN mx[i] = 0..(n - 1)

\* C16: with a limit N, 0 < N < number of rows, the rows in use are the
\* first N of the file in their order (the rows the app shows under the same
\* limit), the depot of the model is row 0 and its clients rows 1..N-1, both
\* matrices are N x N, and every visit of the returned record is in 1..N-1.
C16_FirstRowsTakePart ==
    CapBelowRows =>
        LET N == TheValue(args.num_locations)
        IN  /\ pc # "load" =>
                  /\ Len(df) = N
                  /\ \A i \in 1..N : df[i] = args.csv_file[i]
                  /\ df = DisplayRows(args.csv_file, N)
            /\ MatricesBuilt =>
                  IsSquare(distance_matrix, N) /\ IsSquare(duration_matrix, N)
            /\ model # None =>
                  /\ TheValue(model).depot.y = args.csv_file[1].latitude * 100
                  /\ TheValue(model).depot.x = args.csv_file[1].longitude * 100
                  /\ DOMAIN TheValue(model).clients = 1..(N - 1)
                  /\ \A k \in 1..(N - 1) :
                        TheValue(model).clients[k].name = args.csv_file[k + 1].name
            /\ Returned =>
                  \A x \in DOMAIN sd.routes :
                      /\ \A y \in DOMAIN sd.routes[x].visits :
                            sd.routes[x].visits[y] \in 1..(N - 1)
                      /\ sd.routes[x].locations[1] = args.csv_file[1].name

\* A feasible record was returned for the first 2 rows of a file of 3.
C16_Witness ==
    /\ CapBelowRows
    /\ TheValue(args.num_locations) = 2
    /\ Len(args.csv_file) = 3
    /\ Returned
    /\ sd.feasible
    /\ sd.routes # <<>>

\* C17: a limit of 0 given to solve_vrptw means no limit: every row of the
\* file is in use, and the call does not fail for want of rows.
C17_ZeroMeansUnlimited ==
    (args.num_locations = Some(0) /\ pc # "load") =>
        /\ df = args.csv_file
        /\ Len(args.csv_file) >= 2 => pc # "raised"

\* ------------------------------------------------------ too small a fleet
customers == Len(df) - 1

FleetTooSmall ==
    /\ pc # "load"
    /\ args.num_vehicles * args.vehicle_capacity < customers

\* C18: when the vehicles together cannot carry one unit per customer
\* (num_vehicles * vehicle_capacity < number of customers), the optimiser's
\* result is not feasible and solve_vrptw returns, with feasible false and no
\* routes.
C18_TooSmallFleetInfeasible ==
    FleetTooSmall =>
        /\ result # None => ~TheValue(result).is_feasible
        /\ pc # "raised"
        /\ Returned => (~sd.feasible /\ sd.routes = <<>> /\ sd.num_routes = 0)

\* One vehicle of capacity 1 and two customers or more: the record returned
\* is the infeasible one.
C18_Witness ==
    /\ FleetTooSmall
    /\ args.num_vehicles = 1 /\ args.vehicle_capacity = 1
    /\ customers >= 2
    /\ Returned
    /\ ~sd.feasible

\* ------------------------------------------------- the end of an attempt
AttemptOver ==
    /\ script.pc = "idle"
    /\ ~session_state.solving
    /\ page.status_placeholder = "empty"
    /\ page.progress_placeholder = "empty"

EdgesFromTo(m, i, j) ==
    {x \in DOMAIN m.edges : m.edges[x].frm = i /\ m.edges[x].to = j}

\* C20: the model has exactly one edge for every ordered pair of distinct
\* nodes 0..n-1 and no other edge, n * (n - 1) in all; the edge from i to j
\* has distance int(distance_matrix[i][j] * 100) and duration
\* duration_matrix[i][j], and the edge from j to i has the same weights.
C20_CompleteEdgeSet ==
    model # None =>
        LET m == TheValue(model)
            n == Len(df)
        IN  /\ Len(m.edges) = n * (n - 1)
            /\ \A x \in DOMAIN m.edges :
                  /\ m.edges[x].frm \in 0..(n - 1)
                  /\ m.edges[x].to \in 0..(n - 1)
                  /\ m.edges[x].frm # m.edges[x].to
            /\ \A i, j \in 0..(n - 1) :
                  i # j =>
                      /\ Cardinality(EdgesFromTo(m, i, j)) = 1
                      /\ \A x \in EdgesFromTo(m, i, j) : \A y \in EdgesFromTo(m, j, i) :
                            /\ m.edges[x].distance * 10 <= distance_matrix[i][j]
                            /\ distance_matrix[i][j] < (m.edges[x].distance + 1) * 10
                            /\ m.edges[x].duration = duration_matrix[i][j]
                            /\ m.edges[y].distance = m.edges[x].distance
                            /\ m.edges[y].duration = m.edges[x].duration

\* A model of a depot and two customers at three different places.
C20_Witness ==
    /\ model # None
    /\ Len(df) = 3
    /\ Len(TheValue(model).edges) = 6
    /\ \A x \in DOMAIN TheValue(model).edges : TheValue(model).edges[x].distance > 0

\* ------------------------------------------------------ the solving flag
\* C21: solving is false whenever no script run is under way; it is true
\* only while the foreground polls for its worker, or in a run stopped while
\* polling that has not yet reached its finally block (the status is still
\* on the page); so every script run renders the Solve button enabled when a
\* file is uploaded.
C21_SolvingFalseBetweenRuns ==
    /\ script.pc = "idle" => ~session_state.solving
    /\ session_state.solving =>
          \/ script.pc = "poll"
          \/ script.pc = "finally" /\ page.status_placeholder = "info"
    /\ (HasRun /\ uploaded_file # None) => page.solve_button = "enabled"

\* The run that follows a feasible solve: the flag is false and the button
\* is enabled.
C21_Witness ==
    /\ script.pc = "idle"
    /\ script.attempts >= 1 /\ script.attempt = 0
    /\ session_state.solution_data # None
    /\ ~session_state.solving
    /\ page.solve_button = "enabled"

\* ------------------------------------------------- the stored solution
SolutionSlots ==
    {session_state.solution_data, session_state.solution_json, session_state.solution_html}

\* C22: when no script run is under way the slots solution_data,
\* solution_json and solution_html are all None or all set, and a stored
\* solution_data is a feasible record; also after a failure to read the HTML
\* or the JSON file back.
C22_SolutionSlotsTogether ==
    script.pc = "idle" =>
        /\ (\A s \in SolutionSlots : s = None) \/ (\A s \in SolutionSlots : s # None)
        /\ session_state.solution_data # None =>
              TheValue(session_state.solution_data).feasible

\* ------------------------------------------- what a click on Solve clears
\* Solve was clicked, on input that passed validation, in the script run
\* under way or last ended.
SolveClickedOnValidInput == HasRun /\ script.solve_button /\ ~InputRejected

\* The solution slots hold nothing but what this run's attempt stored.
OnlyThisAttempt ==
    /\ session_state.solution_data # None =>
          /\ script.attempt > 0
          /\ TheValue(session_state.solution_data).attempt = script.attempt
    /\ session_state.solution_html \subseteq {<<script.attempt, "html">>}
    /\ session_state.solution_json \subseteq {<<script.attempt, "json">>}

\* C23: current_view is 'solution' only with a solution_data; and from a
\* click on Solve on validated input on, the session holds no earlier
\* solution and the view is 'locations' until this attempt's own solution is
\* stored in full: nothing is stored after a rejected time window, an
\* infeasible result or an exception of the worker.
C23_SolveClearsEarlierSolution ==
    /\ session_state.current_view = "solution" => session_state.solution_data # None
    /\ SolveClickedOnValidInput =>
          /\ OnlyThisAttempt
          /\ session_state.current_view = "solution" => session_state.solution_json # None
          /\ session_state.current_view \in {"locations", "solution"}
          /\ "err_time_window" \in page.shown => NoSolutionStored
          /\ "err_no_feasible" \in page.shown => NoSolutionStored
          /\ script.exception_result # None => NoSolutionStored

\* A solution was stored when the run began (the view buttons were drawn),
\* Solve was clicked with an empty time window, and nothing is stored now.
C23_Witness ==
    /\ SolveClickedOnValidInput
    /\ page.view_buttons
    /\ "err_time_window" \in page.shown
    /\ NoSolutionStored
    /\ session_state.current_view = "locations"

\* ------------------------------------- the rows validated, the rows solved
\* What the app validated in the run under way: df_display, its coordinates
\* converted by lines 321-322.
ValidatedFrame == to_numeric(DisplayRows(TheValue(uploaded_file).rows, widgets.num_locations))

\* C24: the frame solve_vrptw loads from the temporary CSV and cuts to
\* num_locations is the frame the app validated: the same rows in the same
\* order, with coordinates that are numbers.
C24_SolverLoadsValidatedRows ==
    script.df # None => TheValue(script.df) = ValidatedFrame

\* The rows themselves are the validated ones, whatever the limit.
C24_SameRowsLoaded ==
    script.df # None => TheValue(script.df).rows = ValidatedFrame.rows

\* A limit of 2 hides a third row that is not valid, and the worker has loaded.
C24_HiddenRowWitness ==
    /\ script.df # None
    /\ Len(TheValue(uploaded_file).rows) = 3
    /\ widgets.num_locations = 2
    /\ Len(TheValue(script.df).rows) = 2
    /\ ~validate(TheValue(uploaded_file).rows).validation_passed
====
